---- MODULE Spec2Model ----
(***************************************************************************)
(* Model of assignment1.py: a process-lifecycle demonstration harness.     *)
(* One orchestrating parent process forks children (tasks 1, 2, 3, 5),     *)
(* reaps them with os.wait()/os.waitpid(), and in task 5 aggregates the    *)
(* result records the children leave in /tmp.                              *)
(*                                                                         *)
(* The operating system is modelled by a process table `proc`, from which *)
(* fork() allocates pids, and the /tmp record namespace `files`.  The      *)
(* parent runs with the default SIGCHLD disposition (the program never     *)
(* changes it), so an exited child stays in the table until it is waited   *)
(* for by its parent or, once reparented, by the adopting init process.    *)
(***************************************************************************)
EXTENDS Integers, Sequences, FiniteSets, TLC

\* ------------------------------------------------------------------ bounds
MaxN == 3          \* largest number of children requested (--n)
MaxDur == 2        \* largest measured duration, in half-microsecond ticks
MaxStale == 1      \* records left in /tmp by earlier runs
MaxCode == 1        \* largest exit code of an external program
MaxIter == 16       \* largest argument of cpu_work

\* ------------------------------------------------------- program constants
AdopterPid == 1    \* init/systemd
ZombieDelay == 15  \* time.sleep(15) in zombie mode
OrphanIters == 10  \* range(10) in the orphan child
NiceStep == 5      \* nice_offset = i * 5

ParentPid == AdopterPid + 1
FirstPid == ParentPid + 1
\* Enough pids for n children and, in task 2 without exec, n shells.
PidPool == FirstPid..(FirstPid + 2 * MaxN)

Modes == {"zombie", "orphan"}
\* cmd names a program on PATH, names none, or is the empty string.
Cmds == {"present", "missing", "empty"}

VARIABLES
  pc,          \* position of the parent process
  task,        \* selected task (0 before selection)
  n,           \* requested number of children
  mode,        \* task 3 mode
  useExec,     \* task 2: execvp instead of subprocess.run
  cmd,         \* task 2: whether cmd names an existing program
  children,    \* the parent's list `children` (task 3: the single `pid`)
  proc,        \* OS process table, by pid
  records,     \* (pid, status) pairs returned by os.wait / os.waitpid
  slept,       \* seconds of the zombie-mode sleep elapsed
  files,       \* /tmp/process_demo_child_<pid>.txt, by pid
  wrote,       \* pids whose child completed its write in this run
  k,           \* index of the parent's read loop over `children`
  entries,     \* the parent's list `entries`
  malformed,   \* pids reported "Malformed result file"
  obs,         \* orphan child: getppid() results, with whether the parent was gone
  niceRefused, \* whether this host refuses os.nice() to the children
  exitStatus,  \* exit status of the parent process (-1 while it runs)
  sigchld,     \* SIGCHLD disposition the program was started with
  created,     \* number of processes created since the program started
  iterations,  \* cpu_work: its argument
  wi,          \* cpu_work: the loop variable i
  ws,          \* cpu_work: the accumulator s
  wpc          \* cpu_work: "idle", "loop" or "returned"

\* The locals of cpu_work.
work == <<iterations, wi, ws, wpc>>

vars == <<pc, task, n, mode, useExec, cmd, children, proc, records,
          slept, files, wrote, k, entries, malformed, obs, niceRefused,
          exitStatus, sigchld, created, work>>

\* ------------------------------------------------------------- OS helpers
NoProc == [st |-> "Free", ppid |-> 0, role |-> "none", idx |-> 0,
           cpos |-> "none", status |-> 0, denied |-> FALSE, it |-> 0]

NoFile == [present |-> FALSE, text |-> <<>>]

\* Raw wait status of a process that called exit(code).
WaitStatus(code) == code * 256

InTable(p) == proc[p].st \in {"Running", "Exited"}
IsZombie(p) == proc[p].st = "Exited"

\* fork(): the new process gets a pid that no running or zombie process
\* holds (the lowest such one; a collected process's pid is free again).
NextPid(table) ==
  CHOOSE p \in PidPool :
    /\ table[p].st \notin {"Running", "Exited"}
    /\ \A q \in PidPool : q < p => table[q].st \in {"Running", "Exited"}

NewChild(parent, role, idx, cpos) ==
  [st |-> "Running", ppid |-> parent, role |-> role, idx |-> idx,
   cpos |-> cpos, status |-> 0, denied |-> FALSE, it |-> 0]

\* A collected process leaves the table; nothing of it remains but the fact.
Reaped == [NoProc EXCEPT !.st = "Reaped"]

\* os._exit(code), or the end of a program: the process stays in the table
\* as a zombie until its parent collects it.  Where SIGCHLD is ignored (a
\* disposition the program and all it forks inherit) the kernel discards
\* the process at once and no parent ever gets its status; the adopter
\* does not ignore the signal.
Exited(rec, status) ==
  IF sigchld = "ignore" /\ rec.ppid # AdopterPid
  THEN Reaped
  ELSE [rec EXCEPT !.st = "Exited", !.status = status, !.cpos = "dead"]

\* Mutant: an exiting process's children keep their parent id.
NoReparent(table, dead) == table

\* A process exits: its children, running or zombie, are reparented.
Reparent(table, dead) ==
  [p \in PidPool |->
     IF table[p].st \in {"Running", "Exited"} /\ table[p].ppid = dead
     THEN [table[p] EXCEPT !.ppid = AdopterPid]
     ELSE table[p]]

\* Mutant: a wait also returns children that are still running.
AnyChildrenOf(parent) ==
  {p \in PidPool : proc[p].st \in {"Running", "Exited"}
                    /\ proc[p].ppid = parent}

\* What a blocking wait of `parent` can return: its children that have
\* exited and are not yet collected.
ExitedChildrenOf(parent) ==
  {p \in PidPool : proc[p].st = "Exited" /\ proc[p].ppid = parent}

\* ------------------------------------------------------- pure functions
\* f"{duration:.6f}": a duration in half-microsecond ticks printed to whole
\* microseconds, rounding half to even.
Format6f(d) ==
  LET q == d \div 2
  IN  IF d % 2 = 0 THEN q ELSE IF q % 2 = 0 THEN q ELSE q + 1

\* The line a task 5 child writes: "pid,nice_offset,duration".
EntryText(pid, offset, d) == <<pid, offset, Format6f(d)>>

\* txt.split(",") unpacked into three fields: anything else raises.
WellFormed(text) == Len(text) = 3

\* Mutant: an entry is put before the entries of equal duration.
RECURSIVE InsertByDurUnstable(_, _)
InsertByDurUnstable(e, s) ==
  IF s = <<>> THEN <<e>>
  ELSE IF e[3] <= Head(s)[3] THEN <<e>> \o s
  ELSE <<Head(s)>> \o InsertByDurUnstable(e, Tail(s))

RECURSIVE InsertByDur(_, _)
InsertByDur(e, s) ==
  IF s = <<>> THEN <<e>>
  ELSE IF e[3] < Head(s)[3] THEN <<e>> \o s
  ELSE <<Head(s)>> \o InsertByDur(e, Tail(s))

\* entries.sort(key=lambda x: x[2]): ascending by duration, stable.
RECURSIVE SortByDur(_)
SortByDur(s) ==
  IF s = <<>> THEN <<>>
  ELSE InsertByDur(s[Len(s)], SortByDur(SubSeq(s, 1, Len(s) - 1)))

\* ------------------------------------------------------------------- Init
\* Records an earlier run may have left behind: an empty file (its writer
\* died between open and write) or a complete line of an earlier child that
\* had the same pid.
StaleText(p, empty) == IF empty THEN <<>> ELSE EntryText(p, NiceStep, MaxDur)

\* Only records named after pids the run hands to its children matter:
\* those are the lowest pids of the pool.
StalePids == FirstPid..(FirstPid + MaxStale - 1)

StaleFiles ==
  {[p \in PidPool |->
      IF p \in S THEN [present |-> TRUE, text |-> StaleText(p, p \in E)]
      ELSE NoFile] :
     <<S, E>> \in {se \in (SUBSET StalePids) \X (SUBSET StalePids) :
                     /\ se[2] \subseteq se[1]
                     /\ Cardinality(se[1]) <= MaxStale}}

Start ==
  /\ pc = "start"
  /\ task = 0
  /\ n = 0
  /\ mode = "none"
  /\ useExec = FALSE
  /\ cmd = "present"
  /\ children = <<>>
  /\ proc = [p \in PidPool |-> NoProc]
  /\ records = <<>>
  /\ slept = 0
  /\ files = [p \in PidPool |-> NoFile]
  /\ wrote = {}
  /\ k = 1
  /\ entries = <<>>
  /\ malformed = <<>>
  /\ obs = <<>>
  /\ niceRefused = FALSE
  /\ exitStatus = -1
  /\ created = 0

\* cpu_work has not been called.
NoCall ==
  /\ wi = 0
  /\ ws = 0
  /\ wpc = "idle"

\* The program is started with SIGCHLD at its default disposition.
Init ==
  /\ Start
  /\ sigchld = "default"
  /\ iterations = 0
  /\ NoCall

\* --------------------------------------------------------------- main()
\* A spawning task starts its fork loop; with no children every loop of the
\* function is empty and it returns.
EnterSpawn(t, cnt) ==
  /\ task' = t
  /\ n' = cnt
  /\ pc' = IF cnt > 0 THEN "fork" ELSE "done"

MainTask1 ==
  /\ pc = "start"
  /\ \E cnt \in 0..MaxN : EnterSpawn(1, cnt)
  /\ UNCHANGED <<mode, useExec, cmd, children, proc, records, slept, files,
                 wrote, k, entries, malformed, obs, niceRefused, exitStatus,
                 sigchld, created, work>>

MainTask2 ==
  /\ pc = "start"
  /\ \E cnt \in 0..MaxN : EnterSpawn(2, cnt)
  /\ \E e \in BOOLEAN, c \in Cmds :
       \* without exec the command string goes to a shell, which copes
       \* with any of them alike
       /\ ~e => c = "present"
       /\ useExec' = e
       /\ cmd' = c
  /\ UNCHANGED <<mode, children, proc, records, slept, files, wrote, k,
                 entries, malformed, obs, niceRefused, exitStatus, sigchld,
                 created, work>>

\* task3_zombie_or_orphan(mode) is entered.
EnterTask3(m) ==
  /\ task' = 3
  /\ mode' = m
  /\ pc' = "t3_fork"
  /\ UNCHANGED <<n, useExec, cmd, children, proc, records, slept, files,
                 wrote, k, entries, malformed, obs, niceRefused, exitStatus,
                 sigchld, created, work>>

\* What args.mode can be: one of argparse's two choices, or none given.
ArgModes == Modes \cup {"none"}

\* Mutant: main does not look whether --mode was given.
ModeNeverMissing(m) == FALSE

\* `if not args.mode`
MissingMode(m) == m = "none"

\* argparse admits only the two modes; main passes them on.
MainTask3 ==
  /\ pc = "start"
  /\ \E m \in ArgModes : ~MissingMode(m) /\ EnterTask3(m)

\* --task 3 without --mode: sys.exit(1).
MainTask3NoMode ==
  /\ pc = "start"
  /\ \E m \in ArgModes : MissingMode(m)
  /\ task' = 3
  /\ pc' = "exited"
  /\ exitStatus' = 1
  /\ UNCHANGED <<n, mode, useExec, cmd, children, proc, records, slept,
                 files, wrote, k, entries, malformed, obs, niceRefused,
                 sigchld, created, work>>

\* --task 4: without --pid (or with pid 0) sys.exit(1); otherwise /proc is
\* read and printed, which changes nothing.
MainTask4 ==
  /\ pc = "start"
  /\ task' = 4
  /\ \E hasPid \in BOOLEAN :
       /\ pc' = IF hasPid THEN "done" ELSE "exited"
       /\ exitStatus' = IF hasPid THEN exitStatus ELSE 1
  /\ UNCHANGED <<n, mode, useExec, cmd, children, proc, records, slept,
                 files, wrote, k, entries, malformed, obs, niceRefused,
                 sigchld, created, work>>

\* Task 5 is the only one that looks at the host's nice policy and at /tmp:
\* both are fixed here, as the experiment finds them.
MainTask5 ==
  /\ pc = "start"
  /\ \E cnt \in 0..MaxN : EnterSpawn(5, cnt)
  /\ niceRefused' \in BOOLEAN
  /\ files' \in StaleFiles
  /\ UNCHANGED <<mode, useExec, cmd, children, proc, records, slept, wrote,
                 k, entries, malformed, obs, exitStatus, sigchld, created,
                 work>>

\* The module is importable (the __main__ guard): a caller can hand
\* task3_zombie_or_orphan any string.
CallTask3 ==
  /\ pc = "start"
  /\ EnterTask3("other")

\* ------------------------------------------------- parent: fork loops
\* One iteration of a fork loop on the parent path: os.fork() and
\* children.append(pid).  After the last one the reap loop begins.
ForkChild(role, cpos) ==
  /\ pc = "fork"
  /\ Len(children) < n
  /\ LET p == NextPid(proc)
     IN  /\ proc' = [proc EXCEPT ![p] = NewChild(ParentPid, role, Len(children), cpos)]
         /\ children' = Append(children, p)
  /\ created' = created + 1
  /\ pc' = IF Len(children) + 1 = n THEN "wait" ELSE "fork"
  /\ UNCHANGED <<task, n, mode, useExec, cmd, records, slept, files, wrote,
                 k, entries, malformed, obs, niceRefused, exitStatus,
                 sigchld, work>>

T1Fork == task = 1 /\ ForkChild("t1", "hello")

T2Fork == task = 2 /\ ForkChild("t2", "exec")

T5Fork == task = 5 /\ ForkChild("t5", "nice")

\* ------------------------------------------------- parent: reap loops
\* The function's position after its reap loop.
AfterWait(t) == IF t = 5 THEN "read" ELSE "done"

\* Mutant: the reap loop waits once more than there are handles.
ReapLoopLong(collected, handles) == collected = handles + 1

\* Mutant: the reap loop runs one time too few.
ReapLoopShort(collected, handles) == collected >= handles - 1

\* `for _ in children`: one os.wait() per recorded handle.
ReapLoopDone(collected, handles) == collected = handles

\* os.wait(): blocks until some child of the caller has exited, then
\* collects it (any of the exited ones) and frees its table slot.
Wait ==
  /\ pc = "wait"
  /\ \E p \in ExitedChildrenOf(ParentPid) :
       /\ records' = Append(records, <<p, proc[p].status>>)
       /\ proc' = [proc EXCEPT ![p] = Reaped]
  /\ pc' = IF ReapLoopDone(Len(records) + 1, Len(children))
           THEN AfterWait(task) ELSE "wait"
  /\ UNCHANGED <<task, n, mode, useExec, cmd, children, slept, files, wrote,
                 k, entries, malformed, obs, niceRefused, exitStatus,
                 sigchld, created, work>>

\* ------------------------------------------------------ task 1 children
T1ChildExit(p) ==
  /\ proc[p].st = "Running" /\ proc[p].role = "t1"
  /\ proc' = [proc EXCEPT ![p] = Exited(proc[p], WaitStatus(0))]
  /\ UNCHANGED <<pc, task, n, mode, useExec, cmd, children, records, slept,
                 files, wrote, k, entries, malformed, obs, niceRefused,
                 exitStatus, sigchld, created, work>>

\* ------------------------------------------------------ task 2 children
\* Status of a child whose execvp raised FileNotFoundError: os._exit(1).
ExecFailStatus == WaitStatus(1)

\* execvp succeeds: the image is replaced, the pid is kept.
T2ExecOk(p) ==
  /\ proc[p].st = "Running" /\ proc[p].role = "t2" /\ proc[p].cpos = "exec"
  /\ useExec /\ cmd = "present"
  /\ proc' = [proc EXCEPT ![p].cpos = "prog"]
  /\ UNCHANGED <<pc, task, n, mode, useExec, cmd, children, records, slept,
                 files, wrote, k, entries, malformed, obs, niceRefused,
                 exitStatus, sigchld, created, work>>

\* The external program runs to its own exit code.
ProgExit(p) ==
  /\ proc[p].st = "Running" /\ proc[p].cpos = "prog"
  /\ \E code \in 0..MaxCode :
       proc' = [proc EXCEPT ![p] = Exited(proc[p], WaitStatus(code))]
  /\ UNCHANGED <<pc, task, n, mode, useExec, cmd, children, records, slept,
                 files, wrote, k, entries, malformed, obs, niceRefused,
                 exitStatus, sigchld, created, work>>

\* execvp raises FileNotFoundError: reported, os._exit(1).
T2ExecNotFound(p) ==
  /\ proc[p].st = "Running" /\ proc[p].role = "t2" /\ proc[p].cpos = "exec"
  /\ useExec /\ cmd = "missing"
  /\ proc' = [proc EXCEPT ![p] = Exited(proc[p], ExecFailStatus)]
  /\ UNCHANGED <<pc, task, n, mode, useExec, cmd, children, records, slept,
                 files, wrote, k, entries, malformed, obs, niceRefused,
                 exitStatus, sigchld, created, work>>

\* cmd.split() is empty: args[0] raises IndexError, which nothing catches;
\* the child's interpreter unwinds and exits with code 1.
T2ExecRaise(p) ==
  /\ proc[p].st = "Running" /\ proc[p].role = "t2" /\ proc[p].cpos = "exec"
  /\ useExec /\ cmd = "empty"
  /\ proc' = [proc EXCEPT ![p] = Exited(proc[p], WaitStatus(1))]
  /\ UNCHANGED <<pc, task, n, mode, useExec, cmd, children, records, slept,
                 files, wrote, k, entries, malformed, obs, niceRefused,
                 exitStatus, sigchld, created, work>>

\* Mutant: the child runs the command through a shell in either variant.
UsesShellAlways(exec) == TRUE

\* `if use_exec: ... else:` the else branch is the one with subprocess.run.
UsesShell(exec) == ~exec

\* subprocess.run(cmd, shell=True): the child starts a shell process of its
\* own and waits for it.
T2Subprocess(p) ==
  /\ proc[p].st = "Running" /\ proc[p].role = "t2" /\ proc[p].cpos = "exec"
  /\ UsesShell(useExec)
  /\ LET g == NextPid(proc)
     IN  /\ proc' = [proc EXCEPT ![p].cpos = "subwait",
                                 ![g] = NewChild(p, "shell", proc[p].idx, "prog")]
  /\ created' = created + 1
  /\ UNCHANGED <<pc, task, n, mode, useExec, cmd, children, records, slept,
                 files, wrote, k, entries, malformed, obs, niceRefused,
                 exitStatus, sigchld, work>>

\* subprocess.run returns once the shell has exited (check=False: whatever
\* its code), collecting it; where the kernel has discarded the shell
\* already, subprocess takes that for an exit too.  The child then calls
\* os._exit(0).
T2SubprocessDone(p) ==
  /\ proc[p].st = "Running" /\ proc[p].role = "t2" /\ proc[p].cpos = "subwait"
  /\ \A g \in PidPool : ~(proc[g].st = "Running" /\ proc[g].ppid = p)
  /\ proc' = [q \in PidPool |->
                IF q \in ExitedChildrenOf(p) THEN Reaped
                ELSE IF q = p THEN Exited(proc[p], WaitStatus(0))
                ELSE proc[q]]
  /\ UNCHANGED <<pc, task, n, mode, useExec, cmd, children, records, slept,
                 files, wrote, k, entries, malformed, obs, niceRefused,
                 exitStatus, sigchld, created, work>>

\* --------------------------------------------------------------- task 3
\* Mutant: the zombie-mode parent leaves without reaping.
T3ParentBranchNoReap(m) == "t3_exit"

\* The parent's branch after os.fork(), by mode.
T3ParentBranch(m) == IF m = "zombie" THEN "sleep" ELSE "t3_exit"

\* pid = os.fork(): the first statement after the banner, whatever the mode.
T3Fork ==
  /\ pc = "t3_fork"
  /\ LET p == NextPid(proc)
     IN  /\ proc' = [proc EXCEPT ![p] = NewChild(ParentPid, "t3", 0, mode)]
         /\ children' = <<p>>
  /\ created' = created + 1
  /\ pc' = T3ParentBranch(mode)
  /\ UNCHANGED <<task, n, mode, useExec, cmd, records, slept, files, wrote,
                 k, entries, malformed, obs, niceRefused, exitStatus,
                 sigchld, work>>

\* Zombie mode, child: os._exit(0) at once.
T3ChildZombie(p) ==
  /\ proc[p].st = "Running" /\ proc[p].role = "t3" /\ proc[p].cpos = "zombie"
  /\ proc' = [proc EXCEPT ![p] = Exited(proc[p], WaitStatus(0))]
  /\ UNCHANGED <<pc, task, n, mode, useExec, cmd, children, records, slept,
                 files, wrote, k, entries, malformed, obs, niceRefused,
                 exitStatus, sigchld, created, work>>

\* What the orphan child prints from os.getppid(), and whether its original
\* parent had already terminated when it asked.
Observation(p) == [ppid |-> proc[p].ppid, parentGone |-> exitStatus # -1]

\* Orphan mode, child: one of the ten iterations (print getppid, sleep 1).
T3ChildOrphanIter(p) ==
  /\ proc[p].st = "Running" /\ proc[p].role = "t3" /\ proc[p].cpos = "orphan"
  /\ proc[p].it < OrphanIters
  /\ obs' = Append(obs, Observation(p))
  /\ proc' = [proc EXCEPT ![p].it = @ + 1]
  /\ UNCHANGED <<pc, task, n, mode, useExec, cmd, children, records, slept,
                 files, wrote, k, entries, malformed, niceRefused,
                 exitStatus, sigchld, created, work>>

\* Orphan mode, child: the loop is over; print getppid once more, os._exit(0).
T3ChildOrphanDone(p) ==
  /\ proc[p].st = "Running" /\ proc[p].role = "t3" /\ proc[p].cpos = "orphan"
  /\ proc[p].it = OrphanIters
  /\ obs' = Append(obs, Observation(p))
  /\ proc' = [proc EXCEPT ![p] = Exited(proc[p], WaitStatus(0))]
  /\ UNCHANGED <<pc, task, n, mode, useExec, cmd, children, records, slept,
                 files, wrote, k, entries, malformed, niceRefused,
                 exitStatus, sigchld, created, work>>

\* Any other mode, child: "unknown mode", os._exit(1).
T3ChildUnknown(p) ==
  /\ proc[p].st = "Running" /\ proc[p].role = "t3"
  /\ proc[p].cpos \notin Modes
  /\ proc' = [proc EXCEPT ![p] = Exited(proc[p], WaitStatus(1))]
  /\ UNCHANGED <<pc, task, n, mode, useExec, cmd, children, records, slept,
                 files, wrote, k, entries, malformed, obs, niceRefused,
                 exitStatus, sigchld, created, work>>

\* Zombie mode, parent: one second of time.sleep(15).
T3Sleep ==
  /\ pc = "sleep"
  /\ slept < ZombieDelay
  /\ slept' = slept + 1
  /\ UNCHANGED <<pc, task, n, mode, useExec, cmd, children, proc, records,
                 files, wrote, k, entries, malformed, obs, niceRefused,
                 exitStatus, sigchld, created, work>>

\* Mutant: the parent does not sit out the delay before it reaps.
SleepCutShort == TRUE

\* The parent may call waitpid once the whole sleep has elapsed.
SleepOver == slept = ZombieDelay

\* Zombie mode, parent: os.waitpid(pid, 0) after the sleep; it blocks until
\* the child has exited and collects it.
T3WaitPid ==
  /\ pc = "sleep"
  /\ SleepOver
  /\ LET p == children[1]
     IN  /\ proc[p].st = "Exited" /\ proc[p].ppid = ParentPid
         /\ records' = Append(records, <<p, proc[p].status>>)
         /\ proc' = [proc EXCEPT ![p] = Reaped]
  /\ pc' = "done"
  /\ UNCHANGED <<task, n, mode, useExec, cmd, children, slept, files, wrote,
                 k, entries, malformed, obs, niceRefused, exitStatus,
                 sigchld, created, work>>

\* The parent's os._exit code outside zombie mode.
T3ExitCode(m) == IF m = "orphan" THEN 0 ELSE 1

\* Orphan mode (os._exit(0)) and unknown mode (os._exit(1)), parent: it
\* terminates without waiting; the kernel reparents its child.
T3ParentExit ==
  /\ pc = "t3_exit"
  /\ exitStatus' = T3ExitCode(mode)
  /\ proc' = Reparent(proc, ParentPid)
  /\ pc' = "exited"
  /\ UNCHANGED <<task, n, mode, useExec, cmd, children, records, slept,
                 files, wrote, k, entries, malformed, obs, niceRefused,
                 sigchld, created, work>>

\* The adopting process collects a reparented child that has exited.
AdopterReap(p) ==
  /\ proc[p].st = "Exited" /\ proc[p].ppid = AdopterPid
  /\ proc' = [proc EXCEPT ![p] = Reaped]
  /\ UNCHANGED <<pc, task, n, mode, useExec, cmd, children, records, slept,
                 files, wrote, k, entries, malformed, obs, niceRefused,
                 exitStatus, sigchld, created, work>>

\* --------------------------------------------------------------- task 5
\* Mutant: every child gets the same offset.
NiceOffsetFlat(i) == NiceStep

\* nice_offset = i * 5
NiceOffset(i) == i * NiceStep

\* Mutant: every child uses one and the same record.
RecordKeyShared(pid) == FirstPid

\* /tmp/process_demo_child_{pid}.txt: the record is named after a pid, the
\* writer's own (os.getpid()) and, in the parent's loop, the handle's.
RecordKey(pid) == pid

\* Mutant: the OSError of os.nice is not caught and ends the child.
NiceErrorUncaught(refused) == refused

\* try: os.nice(nice_offset) / except OSError: print(...): a refusal is
\* logged and the child goes on.
NiceErrorEndsChild(refused) == FALSE

\* Child, up to the open: os.nice(nice_offset), which the host may refuse
\* (logged, ignored); cpu_work; open(path, "w"), which creates the record
\* or truncates one that exists.
T5Open(p) ==
  /\ proc[p].st = "Running" /\ proc[p].role = "t5" /\ proc[p].cpos = "nice"
  /\ IF NiceErrorEndsChild(niceRefused)
     THEN /\ proc' = [proc EXCEPT ![p] =
                        Exited([proc[p] EXCEPT !.denied = niceRefused],
                               WaitStatus(1))]
          /\ UNCHANGED files
     ELSE /\ proc' = [proc EXCEPT ![p].cpos = "write",
                                  ![p].denied = niceRefused]
          /\ files' = [files EXCEPT ![RecordKey(p)] =
                                       [present |-> TRUE, text |-> <<>>]]
  /\ UNCHANGED <<pc, task, n, mode, useExec, cmd, children, records, slept,
                 wrote, k, entries, malformed, obs, niceRefused, exitStatus,
                 sigchld, created, work>>

\* Child: the same, but open raises OSError; uncaught, the interpreter
\* exits with code 1 and no record exists.
T5OpenFail(p) ==
  /\ proc[p].st = "Running" /\ proc[p].role = "t5" /\ proc[p].cpos = "nice"
  /\ proc' = [proc EXCEPT ![p] = Exited([proc[p] EXCEPT !.denied = niceRefused],
                                        WaitStatus(1))]
  /\ UNCHANGED <<pc, task, n, mode, useExec, cmd, children, records, slept,
                 files, wrote, k, entries, malformed, obs, niceRefused,
                 exitStatus, sigchld, created, work>>

\* Child: the line is written and the file closed; os._exit(0).  The
\* duration is the difference of two time.monotonic() readings around
\* cpu_work, any value >= 0; nothing outside the child sees it before this.
T5Write(p) ==
  /\ proc[p].st = "Running" /\ proc[p].role = "t5" /\ proc[p].cpos = "write"
  /\ \E d \in 0..MaxDur :
       files' = [files EXCEPT
                   ![RecordKey(p)].text =
                      EntryText(p, NiceOffset(proc[p].idx), d)]
  /\ wrote' = wrote \cup {p}
  /\ proc' = [proc EXCEPT ![p] = Exited(proc[p], WaitStatus(0))]
  /\ UNCHANGED <<pc, task, n, mode, useExec, cmd, children, records, slept,
                 k, entries, malformed, obs, niceRefused, exitStatus,
                 sigchld, created, work>>

\* Child: the write (flushed at close) raises OSError; the file stays empty
\* and the interpreter exits with code 1.
T5WriteFail(p) ==
  /\ proc[p].st = "Running" /\ proc[p].role = "t5" /\ proc[p].cpos = "write"
  /\ proc' = [proc EXCEPT ![p] = Exited(proc[p], WaitStatus(1))]
  /\ UNCHANGED <<pc, task, n, mode, useExec, cmd, children, records, slept,
                 files, wrote, k, entries, malformed, obs, niceRefused,
                 exitStatus, sigchld, created, work>>

\* Mutant: the record is read without asking whether it exists.
ReadKindNoExists(f) ==
  IF ~f.present THEN "error"
  ELSE IF Len(f.text) = 3 THEN "entry" ELSE "malformed"

\* What the parent's loop body does with the record of `pid`: "skip" (no
\* file: pfile.exists() is false), "entry" (three fields) or "malformed"
\* (the unpacking raises inside the try).
ReadKind(f) ==
  IF ~f.present THEN "skip"
  ELSE IF WellFormed(f.text) THEN "entry" ELSE "malformed"

\* Mutant: the unlink has slipped into the try of the parse, which a
\* malformed record leaves before reaching it.
UnlinkIfParsed(f, kind) == IF kind = "malformed" THEN f ELSE NoFile

\* The record after one loop body: pfile.unlink() comes after the try of
\* the parse, so a record that was there is deleted whether it parsed or
\* not.  (The unlink has a try of its own; for a record of the user's own
\* in /tmp it fails only when the record is gone already.)
AfterBody(f, kind) == NoFile

\* The list `entries` once the loop is over: sorted by duration.
Ranked(es) == SortByDur(es)

\* Parent: one iteration of `for pid in children` (exists, read, parse,
\* unlink); after the last one the entries are sorted and printed.  An
\* exception outside the two try blocks would end the parent.
T5Read ==
  /\ pc = "read"
  /\ LET p == children[k]
         f == files[RecordKey(p)]
         kind == ReadKind(f)
         es == IF kind = "entry" THEN Append(entries, f.text) ELSE entries
         last == k = Len(children)
     IN  IF kind \in {"skip", "entry", "malformed"}
         THEN /\ entries' = IF last THEN Ranked(es) ELSE es
              /\ malformed' = IF kind = "malformed" THEN Append(malformed, p)
                              ELSE malformed
              /\ files' = [files EXCEPT ![RecordKey(p)] = AfterBody(f, kind)]
              /\ pc' = IF last THEN "done" ELSE "read"
              /\ k' = k + 1
              /\ UNCHANGED exitStatus
         ELSE /\ pc' = "exited"
              /\ exitStatus' = 1
              /\ UNCHANGED <<entries, malformed, files, k>>
  /\ UNCHANGED <<task, n, mode, useExec, cmd, children, proc, records, slept,
                 wrote, obs, niceRefused, sigchld, created, work>>

\* ------------------------------------------------------------------ Next
ParentStep ==
  \/ MainTask1 \/ MainTask2 \/ MainTask3 \/ MainTask3NoMode \/ MainTask4
  \/ MainTask5 \/ CallTask3
  \/ T1Fork \/ T2Fork \/ T5Fork \/ Wait
  \/ T3Fork \/ T3Sleep \/ T3WaitPid \/ T3ParentExit
  \/ T5Read

ChildStep(p) ==
  \/ T1ChildExit(p)
  \/ T2ExecOk(p) \/ ProgExit(p) \/ T2ExecNotFound(p) \/ T2ExecRaise(p)
  \/ T2Subprocess(p) \/ T2SubprocessDone(p)
  \/ T3ChildZombie(p) \/ T3ChildOrphanIter(p) \/ T3ChildOrphanDone(p)
  \/ T3ChildUnknown(p)
  \/ T5Open(p) \/ T5OpenFail(p) \/ T5Write(p) \/ T5WriteFail(p)

Next ==
  \/ ParentStep
  \/ \E p \in PidPool : ChildStep(p)
  \/ \E p \in PidPool : AdopterReap(p)

Spec == Init /\ [][Next]_vars

\* Tasks 1 and 5 alone, under the scheduling the OS guarantees: while the
\* parent or a child can take a step, one of them does.
Parent15 ==
  \/ MainTask1 \/ MainTask5
  \/ T1Fork \/ T5Fork \/ Wait
  \/ T5Read

Child15(p) ==
  \/ T1ChildExit(p)
  \/ T5Open(p) \/ T5OpenFail(p) \/ T5Write(p) \/ T5WriteFail(p)

Next15 ==
  \/ Parent15
  \/ \E p \in PidPool : Child15(p)

FairSpawnSpec ==
  /\ Init
  /\ [][Next15]_vars
  /\ WF_vars(Next15)

\* ---------------------------------------------------------------- cpu_work
\* range(a, b): the integers from a up to, not including, b.
Range(a, b) == a..(b - 1)

\* (i * i) % (i + 1)
Term(i) == (i * i) % (i + 1)

\* cpu_work(iterations) is called with some argument.
WorkInit ==
  /\ Start
  /\ sigchld = "default"
  /\ iterations \in 0..MaxIter
  /\ NoCall

\* s = 0, and the loop is entered (after a return: the next call, with the
\* same argument).
CpuWorkCall ==
  /\ wpc \in {"idle", "returned"}
  /\ ws' = 0
  /\ wi' = 1
  /\ wpc' = "loop"
  /\ UNCHANGED <<pc, task, n, mode, useExec, cmd, children, proc, records,
                 slept, files, wrote, k, entries, malformed, obs,
                 niceRefused, exitStatus, sigchld, created, iterations>>

\* One pass of `for i in range(1, iterations)`: s += (i * i) % (i + 1).
CpuWorkIter ==
  /\ wpc = "loop"
  /\ wi \in Range(1, iterations)
  /\ ws' = ws + Term(wi)
  /\ wi' = wi + 1
  /\ UNCHANGED <<pc, task, n, mode, useExec, cmd, children, proc, records,
                 slept, files, wrote, k, entries, malformed, obs,
                 niceRefused, exitStatus, sigchld, created, iterations, wpc>>

\* The range is exhausted: return s.
CpuWorkReturn ==
  /\ wpc = "loop"
  /\ wi \notin Range(1, iterations)
  /\ wpc' = "returned"
  /\ UNCHANGED <<pc, task, n, mode, useExec, cmd, children, proc, records,
                 slept, files, wrote, k, entries, malformed, obs,
                 niceRefused, exitStatus, sigchld, created, iterations, wi,
                 ws>>

WorkNext ==
  \/ CpuWorkCall
  \/ CpuWorkIter
  \/ CpuWorkReturn

WorkSpec == WorkInit /\ [][WorkNext]_vars

\* ------------------------------------------- started with SIGCHLD ignored
\* A program inherits the SIGCHLD disposition of whatever started it
\* (env --ignore-signal=CHLD, a daemon that ignores the signal).
HostInit ==
  /\ Start
  /\ sigchld \in {"default", "ignore"}
  /\ iterations = 0
  /\ NoCall

\* os.wait() in a reap loop (no try around it) when the caller has no child
\* left, all of them discarded at their exit: it raises ChildProcessError,
\* which unwinds the task and main; the interpreter prints the traceback
\* and exits with code 1.
WaitNoChild ==
  /\ pc = "wait"
  /\ \A p \in PidPool : ~(InTable(p) /\ proc[p].ppid = ParentPid)
  /\ pc' = "exited"
  /\ exitStatus' = 1
  /\ UNCHANGED <<task, n, mode, useExec, cmd, children, proc, records, slept,
                 files, wrote, k, entries, malformed, obs, niceRefused,
                 sigchld, created, work>>

\* Zombie mode, parent: os.waitpid(pid, 0) after the sleep when the child
\* is no child any more: ChildProcessError, caught (`no child to wait
\* for`); the function returns.
T3WaitPidNoChild ==
  /\ pc = "sleep"
  /\ SleepOver
  /\ ~InTable(children[1])
  /\ pc' = "done"
  /\ UNCHANGED <<task, n, mode, useExec, cmd, children, proc, records, slept,
                 files, wrote, k, entries, malformed, obs, niceRefused,
                 exitStatus, sigchld, created, work>>

HostNext ==
  \/ Next
  \/ WaitNoChild
  \/ T3WaitPidNoChild

HostSpec == HostInit /\ [][HostNext]_vars

\* The lifecycle demonstrator (task 3) alone, under the scheduling the OS
\* guarantees: a runnable process is eventually run, a sleep ends, init
\* collects what it adopted.
Parent3 ==
  \/ MainTask3 \/ MainTask3NoMode \/ CallTask3
  \/ T3Fork \/ T3Sleep \/ T3WaitPid \/ T3ParentExit

Child3(p) ==
  \/ T3ChildZombie(p) \/ T3ChildOrphanIter(p) \/ T3ChildOrphanDone(p)
  \/ T3ChildUnknown(p)

Next3 ==
  \/ Parent3
  \/ \E p \in PidPool : Child3(p)
  \/ \E p \in PidPool : AdopterReap(p)

LifecycleSpec ==
  /\ Init
  /\ [][Next3]_vars
  /\ WF_vars(Parent3)
  /\ \A p \in PidPool : WF_vars(Child3(p))
  /\ \A p \in PidPool : WF_vars(AdopterReap(p))

\* ================================================================ claims
IndexOf(seq, x) == CHOOSE i \in 1..Len(seq) : seq[i] = x

SpawnTasks == {1, 2, 5}
ReapLoopOver == task \in SpawnTasks /\ pc \in {"read", "done"}

\* The single child of the lifecycle demonstrator.
Kid == children[1]
ZombieRun == task = 3 /\ mode = "zombie" /\ children # <<>>
OrphanRun == task = 3 /\ mode = "orphan" /\ children # <<>>

\* C1: once the reap loop of task 1, 2 or 5 is over, the parent holds n
\* handles and has collected exactly n exit records, in whatever order the
\* children terminated; it never holds more records than handles.
C1_ReapCount ==
  /\ Len(records) <= Len(children)
  /\ ReapLoopOver => Len(children) = n /\ Len(records) = n

\* C1 witness: all MaxN children of task 1 collected, the first record not
\* being that of the first child created.
C1_Witness ==
  /\ task = 1 /\ pc = "done" /\ n = MaxN
  /\ Len(records) = MaxN
  /\ records[1][1] # children[1]

\* C2: in zombie mode a child that has exited stops being a zombie only by
\* the parent's waitpid, which comes no sooner than the end of the whole
\* delay; and once waitpid has returned the child is no table entry.
C2_ZombieHeld ==
  /\ [](ZombieRun /\ pc = "done" => ~InTable(Kid))
  /\ [][ZombieRun /\ IsZombie(Kid) /\ ~IsZombie(Kid)'
          => slept = ZombieDelay /\ pc' = "done" /\ ~InTable(Kid)']_vars

\* C2 witness: the child was collected after the full delay.
C2_Witness ==
  /\ ZombieRun /\ pc = "done" /\ slept = ZombieDelay
  /\ proc[Kid].st = "Reaped"
  /\ Len(records) = 1

\* C3: in zombie mode, once the child exists the parent eventually collects
\* it: the run does not end with the child left a zombie.
C3_EventuallyReaped ==
  ZombieRun ~> (pc = "done" /\ Len(records) = 1 /\ records[1][1] = Kid
                /\ ~InTable(Kid))

\* C3 witness: the parent is through its delay while the child, already
\* exited, still waits to be collected.
C3_Witness ==
  /\ ZombieRun /\ pc = "sleep" /\ slept = ZombieDelay
  /\ IsZombie(Kid)

\* C4: in orphan mode every getppid() the child makes after its original
\* parent has terminated returns the adopter, not the original parent; the
\* parent's exit leaves the child's progress untouched; the child exits
\* only after all its iterations, with status 0, and eventually does; the
\* original parent never collects it.
C4_Orphan ==
  /\ [](OrphanRun =>
          /\ \A i \in 1..Len(obs) :
               obs[i].parentGone => obs[i].ppid = AdopterPid /\ obs[i].ppid # ParentPid
          /\ records = <<>>
          /\ proc[Kid].st = "Exited" =>
               Len(obs) = OrphanIters + 1 /\ proc[Kid].status = 0)
  /\ [][OrphanRun /\ pc # "exited" /\ pc' = "exited"
          => /\ proc'[Kid].st = proc[Kid].st
             /\ proc'[Kid].it = proc[Kid].it
             /\ proc'[Kid].cpos = proc[Kid].cpos]_vars
  /\ (OrphanRun ~> (Len(obs) = OrphanIters + 1 /\ proc[Kid].st # "Running"))

\* C4 witness: the child has run to its exit, having seen its original
\* parent first and the adopter after the parent was gone.
C4_Witness ==
  /\ OrphanRun /\ pc = "exited"
  /\ proc[Kid].st = "Exited"
  /\ Len(obs) = OrphanIters + 1
  /\ obs[1].ppid = ParentPid /\ ~obs[1].parentGone
  /\ obs[Len(obs)].ppid = AdopterPid /\ obs[Len(obs)].parentGone

\* C5: for a mode that is neither "zombie" nor "orphan" the lifecycle
\* demonstrator creates no process.
C5_NoForkOnUnknownMode ==
  (task = 3 /\ mode \notin Modes) =>
     /\ children = <<>>
     /\ \A p \in PidPool : proc[p].st = "Free"

\* C6: when execvp fails for a missing program, the child's status is
\* non-zero and differs from every status a successfully replaced child
\* ends with, and the parent still collects n children.
C6_DistinctFailStatus ==
  (task = 2 /\ useExec) =>
     /\ \A i \in 1..Len(records) :
          /\ cmd = "missing" => records[i][2] # 0
          /\ cmd = "present" => records[i][2] # ExecFailStatus
     /\ pc = "done" => Len(records) = n

\* C7: the table of a priority experiment has at most n entries, each with
\* a duration >= 0, in ascending order of duration, entries of equal
\* duration in the creation order of their children.
C7_RankedTable ==
  (task = 5 /\ pc = "done") =>
     /\ Len(entries) <= n
     /\ \A i \in 1..Len(entries) : entries[i][3] >= 0
     /\ \A i, j \in 1..Len(entries) :
          i < j =>
            /\ entries[i][3] <= entries[j][3]
            /\ entries[i][3] = entries[j][3] =>
                 IndexOf(children, entries[i][1]) < IndexOf(children, entries[j][1])

\* C7 witness: a full table with a tie and a strict step, whose first row
\* is not the first child created.
C7_Witness ==
  /\ task = 5 /\ pc = "done" /\ n = MaxN
  /\ Len(entries) = MaxN
  /\ entries[1][3] = entries[2][3]
  /\ entries[2][3] < entries[MaxN][3]
  /\ entries[1][1] # children[1]

\* C8: when the parent's loop comes to a handle with no record, it goes on
\* to the next handle: nothing is added or reported and the parent does not
\* terminate.
C8_AbsentTolerated ==
  [][(pc = "read" /\ ~files[children[k]].present /\ <<pc, k>>' # <<pc, k>>)
       => /\ k' = k + 1
          /\ pc' = IF k = Len(children) THEN "done" ELSE "read"
          /\ malformed' = malformed
          /\ Len(entries') = Len(entries)
          /\ exitStatus' = -1]_vars

\* C8 witness: the loop is over and none of MaxN children had a record.
C8_Witness ==
  /\ task = 5 /\ pc = "done" /\ n = MaxN
  /\ wrote = {} /\ entries = <<>> /\ malformed = <<>>
  /\ exitStatus = -1

Reported == {malformed[i] : i \in 1..Len(malformed)}
Ranking == {entries[i][1] : i \in 1..Len(entries)}
Spawned == {children[i] : i \in 1..Len(children)}

\* C9: at the end of a priority experiment every child that did not write
\* its entry has been reported as malformed and is not in the table, and
\* the table holds exactly the entries of the children that wrote.
C9_AbsentReported ==
  (task = 5 /\ pc = "done") =>
     /\ \A p \in Spawned \ wrote : p \in Reported /\ p \notin Ranking
     /\ Ranking = wrote

\* C10: the record written by the child of index i (from 0) carries the
\* offset i * NiceStep, so no two siblings' records carry the same offset;
\* and when all three children of an experiment with n = 3 wrote, the
\* table has three rows, with offsets 0, NiceStep and 2 * NiceStep.
C10_Offsets ==
  task = 5 =>
    /\ \A p \in wrote :
         files[p].present =>
           files[p].text[2] = (IndexOf(children, p) - 1) * NiceStep
    /\ \A p, q \in wrote :
         (p # q /\ files[p].present /\ files[q].present) =>
           files[p].text[2] # files[q].text[2]
    /\ (pc = "done" /\ n = 3 /\ wrote = Spawned) =>
         /\ Len(entries) = 3
         /\ {entries[i][2] : i \in 1..3} = {0, NiceStep, 2 * NiceStep}

\* C10 witness: three children, all wrote, and the table does not list them
\* in creation order.
C10_Witness ==
  /\ task = 5 /\ pc = "done" /\ n = 3 /\ wrote = Spawned
  /\ Len(entries) = 3
  /\ entries[1][2] = 2 * NiceStep

\* C11: a record of the priority experiment is written at most once, by its
\* own child (which exits with that step; afterwards the record changes
\* only by being deleted); the parent reads no record before it has reaped
\* all n children; it reads the records of its handles one after the other,
\* each once, the handles being distinct; and what a child wrote is, when
\* the parent comes to it, added to the entries, so that at the end every
\* child that wrote is in the table.
C11_RecordOnce ==
  /\ [](task = 5 =>
          /\ (pc = "read" \/ k > 1) =>
               /\ Len(records) = n /\ Len(children) = n
               /\ \A i \in 1..n : proc[children[i]].st = "Reaped"
          /\ \A i, j \in 1..Len(children) :
               i # j => children[i] # children[j]
          /\ \A i \in 1..Len(children) :
               i < k => ~files[children[i]].present
          /\ pc = "done" => wrote \subseteq Ranking)
  /\ [][task = 5 =>
          /\ \A p \in wrote : files'[p] = files[p] \/ files'[p] = NoFile
          /\ wrote' # wrote =>
               \E p \in PidPool \ wrote :
                 /\ wrote' = wrote \cup {p}
                 /\ proc[p].st = "Running" /\ proc'[p].st = "Exited"
                 /\ files'[p].text[1] = p
          /\ k' # k =>
               /\ pc = "read" /\ k' = k + 1
               /\ ~files'[children[k]].present
               /\ children[k] \in wrote =>
                    \E i \in 1..Len(entries') :
                      entries'[i] = files[children[k]].text]_vars

\* C11 witness: MaxN children, each wrote, and the finished table lists
\* every one of them.
C11_Witness ==
  /\ task = 5 /\ pc = "done" /\ n = MaxN
  /\ wrote = Spawned /\ Ranking = Spawned
  /\ Len(records) = MaxN

C13_OwnRecord ==
  /\ [](task = 5 =>
          /\ \A i, j \in 1..Len(children) :
               i # j => children[i] # children[j]
          /\ pc = "fork" =>
               /\ records = <<>>
               /\ \A i \in 1..Len(children) : InTable(children[i])
          /\ \A q \in PidPool :
               (files[q].present /\ Len(files[q].text) = 3)
                  => files[q].text[1] = q)
  /\ [][task = 5 =>
          \A q \in PidPool :
            (files'[q] # files[q] /\ files'[q].present) =>
               /\ proc[q].st = "Running" /\ proc[q].role = "t5"
               /\ proc'[q] # proc[q]]_vars

\* C13 witness: MaxN children are running at once and each has created the
\* record of its own pid.
C13_Witness ==
  /\ task = 5 /\ n = MaxN /\ Len(children) = MaxN
  /\ \A i \in 1..MaxN :
       /\ proc[children[i]].st = "Running"
       /\ proc[children[i]].cpos = "write"
       /\ files[children[i]].present

\* C14: a reaping call that finds no child to collect does not end the
\* run: neither the waitpid of zombie mode nor the reap loop of task 1, 2
\* or 5 leaves its parent terminated with an error.
C14_NoChildRecovered ==
  (task \in SpawnTasks \/ ZombieRun) => pc # "exited"

\* C15: where the host refuses the priority adjustment, the refusal is
\* logged by the child and does not end it: a child that has yet to pass
\* os.nice can go on, running, to create its record; every child past it
\* carries the log; and a child that wrote did so with the offset intended
\* for its index and exited with status 0, which is the status the parent
\* collects for it.
C15_RefusalNotFatal ==
  (task = 5 /\ niceRefused) =>
     /\ \A p \in PidPool :
          (proc[p].st = "Running" /\ proc[p].role = "t5"
             /\ proc[p].cpos = "nice")
            => ENABLED (/\ T5Open(p)
                        /\ proc'[p].st = "Running"
                        /\ proc'[p].denied
                        /\ files'[p].present)
     /\ \A p \in PidPool :
          (proc[p].role = "t5" /\ proc[p].cpos # "nice") => proc[p].denied
     /\ \A p \in PidPool :
          (proc[p].role = "t5" /\ p \in wrote) =>
             /\ proc[p].st = "Exited" /\ proc[p].status = 0
             /\ files[p].present
             /\ files[p].text[2] = proc[p].idx * NiceStep
     /\ \A i \in 1..Len(records) :
          records[i][1] \in wrote => records[i][2] = 0

\* C15 witness: the host refused, and all MaxN children wrote and were
\* collected with status 0.
C15_Witness ==
  /\ task = 5 /\ niceRefused /\ pc = "done" /\ n = MaxN
  /\ wrote = Spawned
  /\ \A i \in 1..Len(records) : records[i][2] = 0
  /\ {entries[i][2] : i \in 1..Len(entries)}
       = {(i - 1) * NiceStep : i \in 1..MaxN}

\* C16: a run of task 3 without a mode, or of task 4 without a pid, ends
\* with a non-zero exit status before the task is entered and without any
\* process having been created.
C16_UsageError ==
  /\ (task = 3 /\ mode = "none") =>
        /\ pc = "exited" /\ exitStatus > 0
        /\ created = 0 /\ children = <<>>
        /\ \A p \in PidPool : proc[p].st = "Free"
  /\ task = 4 =>
        /\ created = 0 /\ children = <<>>
        /\ \A p \in PidPool : proc[p].st = "Free"
        /\ pc \in {"done", "exited"}
        /\ pc = "exited" => exitStatus > 0
        /\ pc = "done" => exitStatus = -1

\* C16 witness: task 3 was asked for without a mode and the program has
\* ended with status 1.
C16_Witness ==
  /\ task = 3 /\ mode = "none" /\ pc = "exited" /\ exitStatus = 1
  /\ created = 0

\* The sum of (i * i) mod (i + 1) for i from a to b, both included.
RECURSIVE SumTerms(_, _)
SumTerms(a, b) ==
  IF b < a THEN 0 ELSE SumTerms(a, b - 1) + ((b * b) % (b + 1))

\* C17: what cpu_work(iterations) returns is the sum of (i * i) mod (i + 1)
\* over every i of 1..iterations, both ends included; being a function of
\* its argument alone, it is the same at every call.
C17_SumToIterations ==
  wpc = "returned" => ws = SumTerms(1, iterations)

\* Whether a run is one of task 2 without exec (subprocess.run in the child).
ShellRun == task = 2 /\ ~useExec

\* C18 as stated: a run of task 1, 2 or 5 with n requested children creates
\* n processes and none of them is a grandchild of the parent.
C18_ExactlyN ==
  /\ \A p \in PidPool :
       InTable(p) => proc[p].ppid \in {ParentPid, AdopterPid}
  /\ ReapLoopOver => created = n

\* C18, amended: no child forks in the parent's place or reaps. The parent
\* alone creates children, at most n and exactly n once its fork loop is
\* over (one in task 3); every process that is not a child of the parent is
\* the one shell of a task 2 child run without exec, which is waiting for
\* it.  So a run creates exactly n processes (task 3: one), except task 2
\* without exec, which creates n children and one shell for each child
\* that got as far as subprocess.run: 2n when it is over.
C18_NoForkByChild ==
  /\ \A p \in PidPool :
       (InTable(p) /\ proc[p].ppid \notin {ParentPid, AdopterPid}) =>
          /\ ShellRun /\ proc[p].role = "shell"
          /\ proc[p].ppid \in Spawned
          /\ proc[proc[p].ppid].st = "Running"
          /\ proc[proc[p].ppid].cpos = "subwait"
          /\ \A q \in PidPool \ {p} :
               InTable(q) => proc[q].ppid # proc[p].ppid
  /\ task \in SpawnTasks => Len(children) <= n
  /\ task = 3 => Len(children) <= 1
  /\ (task \in SpawnTasks /\ pc # "fork") => Len(children) = n
  /\ ~ShellRun => created = Len(children)
  /\ ShellRun =>
       created = Len(children)
                 + Cardinality({i \in 1..Len(children) :
                      ~(proc[children[i]].st = "Running"
                          /\ proc[children[i]].cpos = "exec")})
  /\ (ShellRun /\ pc = "done") => created = 2 * n

\* C18 witness: task 2 without exec is over for MaxN children; twice as
\* many processes were created.
C18_Witness ==
  /\ ShellRun /\ pc = "done" /\ n = MaxN
  /\ created = 2 * MaxN

Collected == {records[i][1] : i \in 1..Len(records)}

\* C19: a process changes state only from running to exited and from
\* exited to reaped (a pid is running again only as a new process, after
\* its earlier holder was reaped); the parent collects a child only when
\* it has exited, one per wait and none twice; and when the reap loop of
\* task 1, 2 or 5 is over the pids its waits returned are exactly the
\* handles it recorded, each once.
C19_Lifecycle ==
  /\ [][\A p \in PidPool :
          proc'[p].st # proc[p].st =>
            <<proc[p].st, proc'[p].st>> \in
               {<<"Free", "Running">>, <<"Reaped", "Running">>,
                <<"Running", "Exited">>, <<"Exited", "Reaped">>}]_vars
  /\ [][records' # records =>
          \E p \in PidPool :
            /\ records' = Append(records, <<p, proc[p].status>>)
            /\ proc[p].st = "Exited" /\ proc'[p].st = "Reaped"
            /\ p \in Spawned /\ p \notin Collected]_vars
  /\ [](task \in SpawnTasks =>
          /\ Collected \subseteq Spawned
          /\ Cardinality(Collected) = Len(records)
          /\ ReapLoopOver =>
               /\ Collected = Spawned
               /\ Len(records) = Len(children)
               /\ Cardinality(Spawned) = n)

\* C19 witness: the reap loop is over for MaxN children and the first pid
\* it returned is that of the child created last.
C19_Witness ==
  /\ ReapLoopOver /\ n = MaxN
  /\ Collected = Spawned
  /\ records[1][1] = children[MaxN]
  /\ records[MaxN][1] = children[1]

\* C20: under fair scheduling a run of task 1 or of task 5 comes to its
\* end: the parent reaches its final report, having made its n waits, with
\* every child exited and collected and no zombie left.
C20_Terminates ==
  (task \in {1, 5}) ~>
     (/\ pc = "done"
      /\ Len(records) = n
      /\ \A p \in PidPool : ~InTable(p))

\* C20 witness: task 1 has ended for MaxN children, all of them collected.
C20_Witness ==
  /\ task = 1 /\ pc = "done" /\ n = MaxN
  /\ Len(children) = MaxN
  /\ \A i \in 1..MaxN : proc[children[i]].st = "Reaped"

====
